---------------------------- MODULE Spec2Model ----------------------------
(***************************************************************************)
(* dice-forge: the dice-formula engine (tokenizeFormula, evaluate,         *)
(* calculateStats, simulateRoll, getTermDistribution, combineDistributions *)
(* and calculateProbabilityDistribution) of the variant that lexes         *)
(* parentheses.                                                            *)
(*                                                                         *)
(* A formula is a sequence of one-character strings.  A JavaScript number  *)
(* is a rational <<n, d>> in lowest terms with d > 0; NaN is <<0, 0>>.     *)
(* A Map<number, number> (Distribution) is a bag of numbers: the keys are  *)
(* the bag's elements and the stored counts their multiplicities.          *)
(***************************************************************************)
EXTENDS Integers, Sequences, FiniteSets, Bags, TLC

VARIABLES formula, pc, parsedFormula, stats, distribution, rollResult

vars == <<formula, pc, parsedFormula, stats, distribution, rollResult>>

-----------------------------------------------------------------------------
(* Bounds of the model.                                                    *)

\* Largest number of pieces concatenated into a free-form formula.
MaxPieces == 3

\* Largest number of operands of a generated well-formed formula.
MaxOperands == 3

\* Largest number of joint outcomes of the dice of a formula that one
\* simulated roll enumerates.
MaxOutcomes == 40

\* Largest number of joint outcomes of the dice of a formula whose
\* distribution is enumerated.
MaxCombinations == 300

\* Largest numerator or denominator of a number the model represents; a
\* number beyond it is OutOfRange and the call that meets it is left out.
MaxMagnitude == 1050000000

-----------------------------------------------------------------------------
(* Characters and strings.                                                 *)

Digits == {"0", "1", "2", "3", "4", "5", "6", "7", "8", "9"}

IsDigit(c) == c \in Digits

DigitVal(c) ==
    CASE c = "0" -> 0 [] c = "1" -> 1 [] c = "2" -> 2 [] c = "3" -> 3
      [] c = "4" -> 4 [] c = "5" -> 5 [] c = "6" -> 6 [] c = "7" -> 7
      [] c = "8" -> 8 [] c = "9" -> 9

Operators == {"+", "-", "*", "/"}

Parentheses == {"(", ")"}

\* /\s/ : the white space of the model's alphabet.
IsWhitespace(c) == c = " "

\* String.prototype.toLowerCase on one character of the model's alphabet.
ToLowerCase(c) ==
    CASE c = "D" -> "d"
      [] c = "X" -> "x"
      [] OTHER -> c

\* formula.replace(/\s+/g, '').toLowerCase()
CleanFormula(f) ==
    LET kept == SelectSeq(f, LAMBDA c : ~IsWhitespace(c))
    IN  [i \in 1..Len(kept) |-> ToLowerCase(kept[i])]

\* The index after the longest run of digits of s that starts at i (i when
\* s[i] is no digit): what a greedy \d+ or \d* consumes from i.
DigitsEnd(s, i) ==
    CHOOSE j \in i..(Len(s) + 1) :
        /\ \A k \in i..(j - 1) : IsDigit(s[k])
        /\ (j = Len(s) + 1 \/ ~IsDigit(s[j]))

IsDigits(s) == Len(s) > 0 /\ \A k \in 1..Len(s) : IsDigit(s[k])

-----------------------------------------------------------------------------
(* The regular expression /(\d+d\d+|\d+\.\d+|\d+|[+\-*/()])/g.             *)
(* Each Match operator gives the index after the match that starts at i,   *)
(* or 0 when the alternative does not match there.                         *)

\* \d+ <sep> \d+
MatchDigitsSepDigits(s, i, sep) ==
    LET e1 == DigitsEnd(s, i)
    IN  IF e1 > i /\ e1 <= Len(s) /\ s[e1] = sep /\ DigitsEnd(s, e1 + 1) > e1 + 1
        THEN DigitsEnd(s, e1 + 1)
        ELSE 0

MatchInteger(s, i) ==
    IF DigitsEnd(s, i) > i THEN DigitsEnd(s, i) ELSE 0

MatchSymbol(s, i) ==
    IF s[i] \in Operators \cup Parentheses THEN i + 1 ELSE 0

\* The alternatives are tried in the order the pattern lists them.
MatchAt(s, i) ==
    IF MatchDigitsSepDigits(s, i, "d") # 0 THEN MatchDigitsSepDigits(s, i, "d")
    ELSE IF MatchDigitsSepDigits(s, i, ".") # 0 THEN MatchDigitsSepDigits(s, i, ".")
    ELSE IF MatchInteger(s, i) # 0 THEN MatchInteger(s, i)
    ELSE MatchSymbol(s, i)

\* cleanFormula.match(regex) ?? [] : all matches from left to right; a
\* character at which nothing matches is skipped.
RECURSIVE ScanFrom(_, _)
ScanFrom(s, i) ==
    IF i > Len(s) THEN << >>
    ELSE LET e == MatchAt(s, i)
         IN  IF e = 0 THEN ScanFrom(s, i + 1)
             ELSE <<SubSeq(s, i, e - 1)>> \o ScanFrom(s, e)

RegexMatch(s) == ScanFrom(s, 1)

-----------------------------------------------------------------------------
(* JavaScript numbers.                                                     *)

NaN == <<0, 0>>

OutOfRange == <<1, 0>>

IsNaN(x) == x = NaN

IsNumber(x) == x[2] > 0

Abs(a) == IF a < 0 THEN -a ELSE a

RECURSIVE GCD(_, _)
GCD(a, b) == IF b = 0 THEN a ELSE GCD(b, a % b)

\* a * b stays within the model's range.
MulFits(a, b) == a = 0 \/ b = 0 \/ Abs(a) <= MaxMagnitude \div Abs(b)

\* The number n / d (d # 0) in lowest terms.
Rat(n, d) ==
    LET g == GCD(Abs(n), Abs(d))
        s == IF d < 0 THEN -1 ELSE 1
    IN  IF Abs(n) \div g > MaxMagnitude \/ Abs(d) \div g > MaxMagnitude
        THEN OutOfRange
        ELSE <<s * (n \div g), s * (d \div g)>>

Num(n) == <<n, 1>>

Zero == Num(0)

One == Num(1)

\* An operand that is no number makes the result no number: an operation on
\* NaN gives NaN, one on a number out of the model's range stays out of it.
Absorb(a, b) == IF a = OutOfRange \/ b = OutOfRange THEN OutOfRange ELSE NaN

Neg(a) == IF IsNumber(a) THEN <<-a[1], a[2]>> ELSE a

\* a + b
Add(a, b) ==
    IF ~(IsNumber(a) /\ IsNumber(b)) THEN Absorb(a, b)
    ELSE LET g  == GCD(a[2], b[2])
             fa == b[2] \div g
             fb == a[2] \div g
         IN  IF MulFits(a[1], fa) /\ MulFits(b[1], fb) /\ MulFits(a[2], fa)
             THEN Rat(a[1] * fa + b[1] * fb, a[2] * fa)
             ELSE OutOfRange

\* a - b
Sub(a, b) == Add(a, Neg(b))

\* a * b
Mul(a, b) ==
    IF ~(IsNumber(a) /\ IsNumber(b)) THEN Absorb(a, b)
    ELSE LET g1 == GCD(Abs(a[1]), b[2])
             g2 == GCD(Abs(b[1]), a[2])
             n1 == a[1] \div g1
             n2 == b[1] \div g2
             d1 == a[2] \div g2
             d2 == b[2] \div g1
         IN  IF MulFits(n1, n2) /\ MulFits(d1, d2)
             THEN Rat(n1 * n2, d1 * d2)
             ELSE OutOfRange

\* a / b for a divisor that is a number other than 0
Div(a, b) ==
    IF ~(IsNumber(a) /\ IsNumber(b)) THEN Absorb(a, b)
    ELSE Mul(a, IF b[1] < 0 THEN <<-b[2], -b[1]>> ELSE <<b[2], b[1]>>)

\* The order of n1 / d1 and n2 / d2 (d1, d2 > 0): -1, 0 or 1, found by
\* comparing the integer parts and then the reciprocals of the fractions.
RECURSIVE Compare(_, _, _, _)
Compare(n1, d1, n2, d2) ==
    LET q1 == n1 \div d1
        q2 == n2 \div d2
        r1 == n1 % d1
        r2 == n2 % d2
    IN  IF q1 # q2 THEN (IF q1 < q2 THEN -1 ELSE 1)
        ELSE IF r1 = 0 \/ r2 = 0
             THEN (IF r1 = r2 THEN 0 ELSE IF r1 = 0 THEN -1 ELSE 1)
        ELSE Compare(d2, r2, d1, r1)

\* a < b and a <= b; a comparison with NaN is false.
Less(a, b) ==
    IsNumber(a) /\ IsNumber(b) /\ Compare(a[1], a[2], b[1], b[2]) < 0

LessEq(a, b) ==
    IsNumber(a) /\ IsNumber(b) /\ Compare(a[1], a[2], b[1], b[2]) <= 0

\* Math.floor
Floor(a) == IF IsNumber(a) THEN Num(a[1] \div a[2]) ELSE a

\* The decimal digits that Math.round(newVal * 1e9) / 1e9 keeps.
RoundDigits == 9

RECURSIVE Pow10(_)
Pow10(k) == IF k = 0 THEN 1 ELSE 10 * Pow10(k - 1)

\* Long division: the first k decimal digits of r / d (0 <= r < d) as a
\* natural number, with the remainder left after them.
RECURSIVE FractionDigits(_, _, _, _)
FractionDigits(r, d, k, acc) ==
    IF k = 0 THEN <<acc, r>>
    ELSE FractionDigits((r * 10) % d, d, k - 1, acc * 10 + (r * 10) \div d)

\* Math.round(newVal * 1e9) / 1e9 : the multiple of 10^-9 nearest to a, the
\* upper one of two equally near.
Round9(a) ==
    IF ~IsNumber(a) THEN a
    ELSE IF Pow10(RoundDigits) % a[2] = 0 THEN a
    ELSE IF ~MulFits(a[2], 10) THEN OutOfRange
    ELSE LET q  == a[1] \div a[2]
             fr == FractionDigits(a[1] % a[2], a[2], RoundDigits, 0)
             f  == IF 2 * fr[2] >= a[2] THEN fr[1] + 1 ELSE fr[1]
         IN  IF MulFits(q, Pow10(RoundDigits))
             THEN Add(Num(q), Rat(f, Pow10(RoundDigits)))
             ELSE OutOfRange

-----------------------------------------------------------------------------
(* ParsedTerm.  An OperatorTerm keeps its '+', '-', '*' or '/' in the      *)
(* field op and a ParenthesisTerm its '(' or ')' in the field paren, so    *)
(* that the field value always holds a number.                             *)

DiceTerm(count, sides) == [type |-> "dice", count |-> count, sides |-> sides]

NumberTerm(value) == [type |-> "number", value |-> value]

OperatorTerm(op) == [type |-> "operator", op |-> op]

ParenthesisTerm(paren) == [type |-> "parenthesis", paren |-> paren]

\* The failure value of tokenizeFormula, and an accepted term sequence.
Null == [null |-> TRUE, terms |-> << >>]

Accepted(terms) == [null |-> FALSE, terms |-> terms]

-----------------------------------------------------------------------------
(* tokenizeFormula                                                         *)

\* parseInt of a string of digits
RECURSIVE ParseInt(_)
ParseInt(s) ==
    IF Len(s) = 0 THEN 0
    ELSE 10 * ParseInt(SubSeq(s, 1, Len(s) - 1)) + DigitVal(s[Len(s)])

\* The index of the first sep in s.
IndexOf(s, sep) == CHOOSE i \in 1..Len(s) : s[i] = sep /\ \A k \in 1..(i - 1) : s[k] # sep

\* parseFloat of a string that matches /^-?\d+(\.\d+)?$/
ParseFloat(s) ==
    LET neg  == s[1] = "-"
        body == IF neg THEN Tail(s) ELSE s
        abs  == IF \E i \in 1..Len(body) : body[i] = "."
                THEN LET dot  == IndexOf(body, ".")
                         frac == SubSeq(body, dot + 1, Len(body))
                     IN  Add(Num(ParseInt(SubSeq(body, 1, dot - 1))),
                             Rat(ParseInt(frac), Pow10(Len(frac))))
                ELSE Num(ParseInt(body))
    IN  IF neg THEN Neg(abs) ELSE abs

\* token.match(/^\d+d\d+$/)
IsDiceToken(t) == Len(t) > 0 /\ MatchDigitsSepDigits(t, 1, "d") = Len(t) + 1

\* token.match(/^-?\d+(\.\d+)?$/)
IsNumberToken(t) ==
    LET body == IF Len(t) > 0 /\ t[1] = "-" THEN Tail(t) ELSE t
    IN  /\ Len(body) > 0
        /\ \/ MatchInteger(body, 1) = Len(body) + 1
           \/ MatchDigitsSepDigits(body, 1, ".") = Len(body) + 1

\* token.match(/^-(\d+d\d+)$/)
IsNegativeDiceToken(t) == Len(t) > 0 /\ t[1] = "-" /\ IsDiceToken(Tail(t))

\* nextToken.match(/^\d/) || nextToken.match(/^\d+d\d+/)
StartsOperand(t) ==
    \/ IsDigit(t[1])
    \/ MatchDigitsSepDigits(t, 1, "d") # 0

\* ['(', '+', '-', '*', '/'].includes(prevToken)
SignContext == {<<"(">>, <<"+">>, <<"-">>, <<"*">>, <<"/">>}

\* The loop that folds a unary sign into the token after it: tokens is the
\* array it reads and rewrites, i the loop index, processedTokens what it
\* has pushed.  prevToken is null at i = 1 and the last processed token
\* after that (undefined, so neither null nor in the list, when there is
\* none).
RECURSIVE FoldSigns(_, _, _)
FoldSigns(tokens, i, processedTokens) ==
    IF i > Len(tokens) THEN processedTokens
    ELSE LET token   == tokens[i]
             isSign  == token = <<"+">> \/ token = <<"-">>
             prevOk  == \/ i = 1
                        \/ /\ Len(processedTokens) > 0
                           /\ processedTokens[Len(processedTokens)] \in SignContext
             hasNext == i + 1 <= Len(tokens)
         IN  IF isSign /\ prevOk /\ hasNext /\ StartsOperand(tokens[i + 1])
             THEN FoldSigns([tokens EXCEPT ![i + 1] = token \o @], i + 1,
                            processedTokens)
             ELSE FoldSigns(tokens, i + 1, Append(processedTokens, token))

\* CountParen that never lets the count fall below 0; C12_ParenthesesBalance
\* tells it from CountParen.
CountParenClamped(openParens, token) ==
    IF token = <<"(">> THEN openParens + 1
    ELSE IF token = <<")">> THEN (IF openParens > 0 THEN openParens - 1 ELSE 0)
    ELSE openParens

\* The '(' / ')' count after token.
CountParen(openParens, token) ==
    IF token = <<"(">> THEN openParens + 1
    ELSE IF token = <<")">> THEN openParens - 1
    ELSE openParens

\* The dice term of a token \d+d\d+ : token.split('d') and parseInt.
DiceOf(t) ==
    LET d == IndexOf(t, "d")
    IN  DiceTerm(ParseInt(SubSeq(t, 1, d - 1)), ParseInt(SubSeq(t, d + 1, Len(t))))

\* sides <= 0 || count <= 0 (parseInt of digits is never NaN)
BadDice(term) == term.sides <= 0 \/ term.count <= 0

\* ParseTokens without the test of the count after the loop;
\* C19_EvaluateNeverThrows tells it from ParseTokens.
RECURSIVE ParseTokensUnclosed(_, _, _, _)
ParseTokensUnclosed(tokens, i, openParens, parsedTokens) ==
    IF i > Len(tokens)
    THEN Accepted(parsedTokens)
    ELSE LET token == tokens[i]
             open  == CountParen(openParens, token)
         IN  IF open < 0 THEN Null
             ELSE IF IsDiceToken(token)
             THEN IF BadDice(DiceOf(token)) THEN Null
                  ELSE ParseTokensUnclosed(tokens, i + 1, open,
                                   Append(parsedTokens, DiceOf(token)))
             ELSE IF IsNumberToken(token)
             THEN ParseTokensUnclosed(tokens, i + 1, open,
                              Append(parsedTokens, NumberTerm(ParseFloat(token))))
             ELSE IF token \in {<<"+">>, <<"-">>, <<"*">>, <<"/">>}
             THEN ParseTokensUnclosed(tokens, i + 1, open,
                              Append(parsedTokens, OperatorTerm(token[1])))
             ELSE IF token \in {<<"(">>, <<")">>}
             THEN ParseTokensUnclosed(tokens, i + 1, open,
                              Append(parsedTokens, ParenthesisTerm(token[1])))
             ELSE IF IsNegativeDiceToken(token)
             THEN IF BadDice(DiceOf(Tail(token))) THEN Null
                  ELSE ParseTokensUnclosed(tokens, i + 1, open,
                                   parsedTokens \o <<NumberTerm(Num(-1)),
                                                     OperatorTerm("*"),
                                                     DiceOf(Tail(token))>>)
             ELSE Null

\* The validation loop over the folded tokens.
RECURSIVE ParseTokens(_, _, _, _)
ParseTokens(tokens, i, openParens, parsedTokens) ==
    IF i > Len(tokens)
    THEN IF openParens # 0 THEN Null ELSE Accepted(parsedTokens)
    ELSE LET token == tokens[i]
             open  == CountParen(openParens, token)
         IN  IF open < 0 THEN Null
             ELSE IF IsDiceToken(token)
             THEN IF BadDice(DiceOf(token)) THEN Null
                  ELSE ParseTokens(tokens, i + 1, open,
                                   Append(parsedTokens, DiceOf(token)))
             ELSE IF IsNumberToken(token)
             THEN ParseTokens(tokens, i + 1, open,
                              Append(parsedTokens, NumberTerm(ParseFloat(token))))
             ELSE IF token \in {<<"+">>, <<"-">>, <<"*">>, <<"/">>}
             THEN ParseTokens(tokens, i + 1, open,
                              Append(parsedTokens, OperatorTerm(token[1])))
             ELSE IF token \in {<<"(">>, <<")">>}
             THEN ParseTokens(tokens, i + 1, open,
                              Append(parsedTokens, ParenthesisTerm(token[1])))
             ELSE IF IsNegativeDiceToken(token)
             THEN IF BadDice(DiceOf(Tail(token))) THEN Null
                  ELSE ParseTokens(tokens, i + 1, open,
                                   parsedTokens \o <<NumberTerm(Num(-1)),
                                                     OperatorTerm("*"),
                                                     DiceOf(Tail(token))>>)
             ELSE Null

tokenizeFormula(f) ==
    LET cleanFormula == CleanFormula(f)
    IN  IF Len(cleanFormula) = 0 THEN Accepted(<< >>)
        ELSE ParseTokens(FoldSigns(RegexMatch(cleanFormula), 1, << >>), 1, 0, << >>)

-----------------------------------------------------------------------------
(* Distributions                                                           *)

\* What values.pop() gives on an empty stack in 'dist' mode: undefined, which
\* is no Distribution (no bag has an element of multiplicity 0).  In the
\* other modes undefined is used in arithmetic alone, where it is NaN.
Undefined == (NaN :> 0)

\* v1 op v2 on numbers; a division by 0 gives NaN.
Arith(op, a, b) ==
    CASE op = "+" -> Add(a, b)
      [] op = "-" -> Sub(a, b)
      [] op = "*" -> Mul(a, b)
      [] op = "/" -> IF b = Zero THEN NaN ELSE Div(a, b)

\* NextDist over the faces 0 .. sides - 1; C6_SingleDiceDistribution tells
\* it from NextDist.
NextDistFromZero(currentDist, sides) ==
    BagOfAll(LAMBDA p : Add(p[1], Num(p[2])),
             [p \in (DOMAIN currentDist) \X (0..(sides - 1)) |-> currentDist[p[1]]])

\* One pass of the loop over the dice of a term: every (sum, count) entry
\* of currentDist and every face s add count to the bucket sum + s.
NextDist(currentDist, sides) ==
    BagOfAll(LAMBDA p : Add(p[1], Num(p[2])),
             [p \in (DOMAIN currentDist) \X (1..sides) |-> currentDist[p[1]]])

RECURSIVE DiceDist(_, _, _)
DiceDist(currentDist, i, term) ==
    IF i >= term.count THEN currentDist
    ELSE DiceDist(NextDist(currentDist, term.sides), i + 1, term)

getTermDistribution(term) ==
    IF term.type = "number" THEN (term.value :> 1)
    ELSE DiceDist((Zero :> 1), 0, term)

\* Buckets adding 1 for a pair instead of count1 * count2;
\* C18_RoundedConvolution tells it from Buckets.
BucketsCountingPairs(dist1, dist2, newVal) ==
    BagOfAll(LAMBDA p : Round9(newVal[p]),
             [p \in {q \in DOMAIN newVal : ~IsNaN(newVal[q])} |-> 1])

\* The buckets the two loops fill from the values newVal of the pairs: a
\* pair whose newVal is NaN adds to none, any other adds count1 * count2 to
\* the bucket of the rounded newVal.
Buckets(dist1, dist2, newVal) ==
    BagOfAll(LAMBDA p : Round9(newVal[p]),
             [p \in {q \in DOMAIN newVal : ~IsNaN(newVal[q])} |->
                 dist1[p[1]] * dist2[p[2]]])

combineDistributions(dist1, dist2, op) ==
    IF dist1 = Undefined \/ dist2 = Undefined THEN EmptyBag
    ELSE Buckets(dist1, dist2,
                 [p \in (DOMAIN dist1) \X (DOMAIN dist2) |-> Arith(op, p[1], p[2])])

-----------------------------------------------------------------------------
(* evaluate                                                                *)

\* precedence with all four operators ranked alike; C1_StandardArithmetic
\* tells it from precedence.
precedenceFlat(op) == 1

precedence(op) == IF op \in {"+", "-"} THEN 1 ELSE 2

applyOp(op, b, a, mode) ==
    IF mode = "value" THEN Arith(op, a, b)
    ELSE combineDistributions(a, b, op)

\* resolveTerm taking count * sides / 2 for the mean of a dice term;
\* C2_DiceResolution tells it from resolveTerm.
resolveTermHalfMax(term, mode) ==
    IF mode = "dist" THEN getTermDistribution(term)
    ELSE IF term.type = "number" THEN term.value
    ELSE CASE mode = "min" -> Num(term.count * 1)
           [] mode = "max" -> Num(term.count * term.sides)
           [] mode = "avg" -> Rat(term.count * term.sides, 2)

\* A dice term in 'roll' mode has no case here: simulateRoll, the one caller
\* that passes 'roll', replaces every dice term by a number term first.
resolveTerm(term, mode) ==
    IF mode = "dist" THEN getTermDistribution(term)
    ELSE IF term.type = "number" THEN term.value
    ELSE CASE mode = "min" -> Num(term.count * 1)
           [] mode = "max" -> Num(term.count * term.sides)
           [] mode = "avg" -> Rat(term.count * (term.sides + 1), 2)

evaluationMode(mode) == IF mode = "dist" THEN "dist" ELSE "value"

\* The three statements op = ops.pop(); b = values.pop(); a = values.pop()
\* and values.push(applyOp(op, b, a, evaluationMode)) on the stacks st.
ApplyTop(st, mode) ==
    LET n      == Len(st.values)
        nothing == IF mode = "dist" THEN Undefined ELSE NaN
        op     == st.ops[Len(st.ops)]
        b      == IF n >= 1 THEN st.values[n] ELSE nothing
        a      == IF n >= 2 THEN st.values[n - 1] ELSE nothing
        rest   == IF n >= 2 THEN SubSeq(st.values, 1, n - 2) ELSE << >>
    IN  [values |-> Append(rest, applyOp(op, b, a, evaluationMode(mode))),
         ops    |-> SubSeq(st.ops, 1, Len(st.ops) - 1)]

\* while (ops.length && top !== '(') { apply }   -- at a ')'
RECURSIVE UnwindToParen(_, _)
UnwindToParen(st, mode) ==
    IF Len(st.ops) > 0 /\ st.ops[Len(st.ops)] # "("
    THEN UnwindToParen(ApplyTop(st, mode), mode)
    ELSE st

\* while (ops.length && top !== '(' && precedence[top] >= precedence[op])
RECURSIVE UnwindPrecedence(_, _, _)
UnwindPrecedence(st, op, mode) ==
    IF /\ Len(st.ops) > 0
       /\ st.ops[Len(st.ops)] # "("
       /\ precedence(st.ops[Len(st.ops)]) >= precedence(op)
    THEN UnwindPrecedence(ApplyTop(st, mode), op, mode)
    ELSE st

\* The evaluation threw "Mismatched parentheses".
Threw == [threw |-> TRUE]

\* while (ops.length > 0) { op = ops.pop(); if (op === '(') throw; apply }
RECURSIVE Drain(_, _)
Drain(st, mode) ==
    IF Len(st.ops) = 0 THEN st
    ELSE IF st.ops[Len(st.ops)] = "(" THEN Threw
    ELSE Drain(ApplyTop(st, mode), mode)

\* ops.pop() : the operator stack without its top.
PopOp(st) == [st EXCEPT !.ops = SubSeq(@, 1, Len(@) - 1)]

PushOp(st, op) == [st EXCEPT !.ops = Append(@, op)]

PushValue(st, v) == [st EXCEPT !.values = Append(@, v)]

\* The loop over the tokens from token i on, then the drain.  At a ')' the
\* stacks u left by the unwinding decide: no '(' left throws, else it is
\* popped.
RECURSIVE EvalFrom(_, _, _, _)
RECURSIVE AfterClose(_, _, _, _)
AfterClose(tokens, i, u, mode) ==
    IF Len(u.ops) = 0 THEN Threw
    ELSE EvalFrom(tokens, i + 1, PopOp(u), mode)

EvalFrom(tokens, i, st, mode) ==
    IF i > Len(tokens) THEN Drain(st, mode)
    ELSE IF tokens[i].type = "number" \/ tokens[i].type = "dice"
    THEN EvalFrom(tokens, i + 1, PushValue(st, resolveTerm(tokens[i], mode)), mode)
    ELSE IF tokens[i].type = "parenthesis"
    THEN IF tokens[i].paren = "("
         THEN EvalFrom(tokens, i + 1, PushOp(st, "("), mode)
         ELSE AfterClose(tokens, i, UnwindToParen(st, mode), mode)
    ELSE EvalFrom(tokens, i + 1,
                  PushOp(UnwindPrecedence(st, tokens[i].op, mode), tokens[i].op),
                  mode)

\* The value evaluate returns for no token and for an empty value stack.
Default(mode) == IF mode = "dist" THEN (Zero :> 1) ELSE Zero

\* What evaluate does with the stacks st the loops leave: the one value, or
\* for any other number of values the last one or the default.
Outcome(st, mode) ==
    IF st = Threw THEN Threw
    ELSE IF Len(st.values) # 1
    THEN [threw |-> FALSE,
          result |-> IF Len(st.values) > 0
                     THEN st.values[Len(st.values)]
                     ELSE Default(mode)]
    ELSE [threw |-> FALSE, result |-> st.values[1]]

\* evaluate gives [threw |-> TRUE] or [threw |-> FALSE, result |-> r].
evaluate(tokens, mode) ==
    IF Len(tokens) = 0 THEN [threw |-> FALSE, result |-> Default(mode)]
    ELSE Outcome(EvalFrom(tokens, 1, [values |-> << >>, ops |-> << >>], mode), mode)

-----------------------------------------------------------------------------
(* calculateStats, simulateRoll, calculateProbabilityDistribution          *)

\* The object calculateStats builds from the three evaluations, or the
\* zeros of its catch block when they threw.
StatsOf(min, max, avg) ==
    IF min.threw \/ max.threw \/ avg.threw
    THEN [min |-> Zero, max |-> Zero, avg |-> Zero, avgFloored |-> Zero]
    ELSE [min |-> min.result, max |-> max.result, avg |-> avg.result,
          avgFloored |-> Floor(avg.result)]

\* evaluate in each of the three deterministic modes.
EvaluateAll(terms) == [mode \in {"min", "max", "avg"} |-> evaluate(terms, mode)]

StatsFrom(e) == StatsOf(e["min"], e["max"], e["avg"])

calculateStats(terms) ==
    IF Len(terms) = 0
    THEN [min |-> Zero, max |-> Zero, avg |-> Zero, avgFloored |-> Zero]
    ELSE StatsFrom(EvaluateAll(terms))

\* The sides of every die a roll draws, in the order of the draws.
RECURSIVE DieSides(_)
DieSides(terms) ==
    IF Len(terms) = 0 THEN << >>
    ELSE LET t == terms[1]
         IN  (IF t.type = "dice" THEN [i \in 1..t.count |-> t.sides] ELSE << >>)
             \o DieSides(Tail(terms))

\* Draws without the + 1, faces 0 .. sides - 1; C4_SingleDiceTerm tells it
\* from Draws.
RECURSIVE DrawsFromZero(_)
DrawsFromZero(sides) ==
    IF Len(sides) = 0 THEN {<< >>}
    ELSE {Append(d, v) : d \in DrawsFromZero(SubSeq(sides, 1, Len(sides) - 1)),
                         v \in 0..(sides[Len(sides)] - 1)}

\* Every outcome of the draws Math.floor(Math.random() * sides) + 1 of the
\* dice whose sides are listed.
RECURSIVE Draws(_)
Draws(sides) ==
    IF Len(sides) = 0 THEN {<< >>}
    ELSE {Append(d, v) : d \in Draws(SubSeq(sides, 1, Len(sides) - 1)),
                         v \in 1..sides[Len(sides)]}

RECURSIVE SumSeq(_)
SumSeq(s) == IF Len(s) = 0 THEN 0 ELSE s[1] + SumSeq(Tail(s))

\* RolledTerms in which every dice term sums the draws from the first one
\* on; C17_RollResultConsistent tells it from RolledTerms.
RECURSIVE RolledTermsFromFirst(_, _, _)
RolledTermsFromFirst(terms, draws, used) ==
    IF Len(terms) = 0 THEN << >>
    ELSE LET t == terms[1]
         IN  IF t.type = "dice"
             THEN <<NumberTerm(Num(SumSeq(SubSeq(draws, 1, t.count))))>>
                  \o RolledTermsFromFirst(Tail(terms), draws, used)
             ELSE <<t>> \o RolledTermsFromFirst(Tail(terms), draws, used)

\* terms.map(...): every dice term replaced by the number term of the sum of
\* its own draws; used is the number of draws the terms before took.
RECURSIVE RolledTerms(_, _, _)
RolledTerms(terms, draws, used) ==
    IF Len(terms) = 0 THEN << >>
    ELSE LET t == terms[1]
         IN  IF t.type = "dice"
             THEN <<NumberTerm(Num(SumSeq(SubSeq(draws, used + 1, used + t.count))))>>
                  \o RolledTerms(Tail(terms), draws, used + t.count)
             ELSE <<t>> \o RolledTerms(Tail(terms), draws, used)

\* terms.filter(number).reduce((sum, t) => sum + t.value, 0)
RECURSIVE Modifier(_)
Modifier(terms) ==
    IF Len(terms) = 0 THEN Zero
    ELSE LET t == terms[Len(terms)]
             sum == Modifier(SubSeq(terms, 1, Len(terms) - 1))
         IN  IF t.type = "number" THEN Add(sum, t.value) ELSE sum

\* The RollResult for the evaluation total of the rolled terms, or the
\* zeros of the catch block when it threw.
RollResultOf(total, terms, draws) ==
    IF total.threw
    THEN [total |-> Zero, details |-> << >>, modifier |-> Zero]
    ELSE [total    |-> total.result,
          details  |-> [i \in 1..Len(draws) |->
                           [value |-> draws[i], sides |-> DieSides(terms)[i],
                            sign |-> 1]],
          modifier |-> Modifier(terms)]

simulateRoll(terms, draws) ==
    IF Len(terms) = 0 THEN [total |-> Zero, details |-> << >>, modifier |-> Zero]
    ELSE RollResultOf(evaluate(RolledTerms(terms, draws, 0), "roll"), terms, draws)

\* terms.reduce((sum, term) => term.type === 'dice' ? sum + term.count : sum, 0)
RECURSIVE TotalDice(_)
TotalDice(terms) ==
    IF Len(terms) = 0 THEN 0
    ELSE TotalDice(SubSeq(terms, 1, Len(terms) - 1))
         + (IF terms[Len(terms)].type = "dice" THEN terms[Len(terms)].count ELSE 0)

\* The dice cap of calculateProbabilityDistribution.
DiceCap == 8

RECURSIVE SetToSeq(_)
SetToSeq(S) ==
    IF S = {} THEN << >>
    ELSE LET x == CHOOSE x \in S : TRUE
         IN  <<x>> \o SetToSeq(S \ {x})

\* Array.from(entries).map(...) over the keys in the order keys lists them.
Rows(finalDistribution, keys, totalCombinations) ==
    [i \in 1..Len(keys) |->
        [value |-> keys[i],
         probability |-> Rat(finalDistribution[keys[i]], totalCombinations)]]

\* .filter(item => item.probability > 0).sort((a, b) => a.value - b.value)
FilterAndSort(rows) ==
    SortSeq(SelectSeq(rows, LAMBDA r : Less(Zero, r.probability)),
            LAMBDA a, b : Less(a.value, b.value))

\* DistributionRows dividing by the number of buckets instead of the sum of
\* their counts; C5_SumToOneUnlessAllDropped tells it from DistributionRows.
DistributionRowsByKeys(finalDistribution) ==
    IF finalDistribution.threw THEN << >>
    ELSE IF finalDistribution.result = Undefined THEN << >>
    ELSE IF BagCardinality(finalDistribution.result) = 0 THEN << >>
    ELSE FilterAndSort(Rows(finalDistribution.result,
                            SetToSeq(DOMAIN finalDistribution.result),
                            Cardinality(DOMAIN finalDistribution.result)))

\* What calculateProbabilityDistribution does with the evaluation.
DistributionRows(finalDistribution) ==
    IF finalDistribution.threw THEN << >>
    ELSE IF finalDistribution.result = Undefined THEN << >>
    ELSE IF BagCardinality(finalDistribution.result) = 0 THEN << >>
    ELSE FilterAndSort(Rows(finalDistribution.result,
                            SetToSeq(DOMAIN finalDistribution.result),
                            BagCardinality(finalDistribution.result)))

\* calculateProbabilityDistribution refusing at the cap already; C7_DiceCap
\* tells it from calculateProbabilityDistribution.
calculateProbabilityDistributionAtCap(terms) ==
    IF Len(terms) = 0 THEN << >>
    ELSE IF TotalDice(terms) >= DiceCap THEN << >>
    ELSE DistributionRows(evaluate(terms, "dist"))

\* calculateProbabilityDistribution without its test for no terms;
\* C16_EmptyFormula tells it from calculateProbabilityDistribution.
calculateProbabilityDistributionOfAny(terms) ==
    IF TotalDice(terms) > DiceCap THEN << >>
    ELSE DistributionRows(evaluate(terms, "dist"))

calculateProbabilityDistribution(terms) ==
    IF Len(terms) = 0 THEN << >>
    ELSE IF TotalDice(terms) > DiceCap THEN << >>
    ELSE DistributionRows(evaluate(terms, "dist"))

-----------------------------------------------------------------------------
(* The formulas of the model.                                              *)

\* The pieces a free-form formula is concatenated from.
Pieces ==
    { <<"4", "d", "2">>, <<"5", "d", "2">>, <<"9">>, <<"0">>,
      <<"+">>, <<"-">>, <<"*">>, <<"/">>, <<"(">>, <<")">>,
      <<" ">>, <<"D">>, <<".">> }

RECURSIVE FreeFormulas(_)
FreeFormulas(k) ==
    IF k = 0 THEN {<< >>}
    ELSE FreeFormulas(k - 1)
         \cup {f \o p : f \in FreeFormulas(k - 1), p \in Pieces}

\* The operands of a generated well-formed formula.
Operands == { <<"2", "d", "6">>, <<"3">> }

\* The well-formed formulas of exactly k operands: operands and binary
\* operators alternate, and a sub-expression of two or more operands may
\* stand in parentheses.
RECURSIVE WellFormed(_)
WellFormed(k) ==
    IF k = 1 THEN Operands
    ELSE LET Group(j) ==
                 IF j = 1 THEN WellFormed(1)
                 ELSE WellFormed(j)
                      \cup {<<"(">> \o e \o <<")">> : e \in WellFormed(j)}
         IN  UNION { {a \o <<op>> \o b :
                         a \in Group(i), b \in Group(k - i), op \in Operators} :
                     i \in 1..(k - 1) }

\* An operand, an operator and a signed operand: "3*-2d6", "2d6/+3".
SignedOperands == Operands \cup { <<"1", "d", "2">> }

SignedFormulas ==
    {a \o <<op, sign>> \o b :
        a \in SignedOperands, b \in SignedOperands,
        op \in Operators, sign \in {"+", "-"}}

\* A parenthesised division by the literal 0 directly followed by an
\* operand: "(3/0)2d6".
JuxtaposedFormulas ==
    {<<"(">> \o a \o <<"/", "0", ")">> \o b : a \in Operands, b \in Operands}

\* A division of two operands, a die of two sides among them: "3/1d2".
QuotientFormulas ==
    {a \o <<"/">> \o b : a \in SignedOperands, b \in SignedOperands}

Formulas ==
    FreeFormulas(MaxPieces) \cup UNION {WellFormed(k) : k \in 1..MaxOperands}
        \cup SignedFormulas \cup JuxtaposedFormulas \cup QuotientFormulas

-----------------------------------------------------------------------------
(* One use of the engine: a formula is tokenized; an accepted term         *)
(* sequence is given to calculateStats and then to                         *)
(* calculateProbabilityDistribution or to simulateRoll.                    *)

NotComputed == [computed |-> FALSE]

\* acc * sides^count, counted up to cap + 1.
RECURSIVE PowerUpTo(_, _, _, _)
PowerUpTo(sides, count, acc, cap) ==
    IF count = 0 \/ sides = 1 THEN acc
    ELSE IF acc > cap \div sides THEN cap + 1
    ELSE PowerUpTo(sides, count - 1, acc * sides, cap)

\* The joint outcomes of the dice of the terms, counted up to cap + 1.
RECURSIVE JointOutcomes(_, _)
JointOutcomes(terms, cap) ==
    IF Len(terms) = 0 THEN 1
    ELSE LET rest == JointOutcomes(Tail(terms), cap)
             t    == terms[1]
             own  == IF t.type = "dice" THEN PowerUpTo(t.sides, t.count, 1, cap) ELSE 1
         IN  IF rest > cap \div own THEN cap + 1 ELSE rest * own

StatsInRange(s) ==
    OutOfRange \notin {s.min, s.max, s.avg, s.avgFloored}

RowsInRange(rows) == \A i \in 1..Len(rows) : rows[i].value # OutOfRange

Init ==
    /\ formula \in Formulas
    /\ pc = "input"
    /\ parsedFormula = NotComputed
    /\ stats = NotComputed
    /\ distribution = NotComputed
    /\ rollResult = NotComputed

Tokenize ==
    /\ pc = "input"
    /\ parsedFormula' = tokenizeFormula(formula)
    /\ pc' = IF parsedFormula'.null THEN "rejected" ELSE "parsed"
    /\ UNCHANGED <<formula, stats, distribution, rollResult>>

CalculateStats ==
    /\ pc = "parsed"
    /\ stats' = calculateStats(parsedFormula.terms)
    /\ StatsInRange(stats')
    /\ pc' = "stats"
    /\ UNCHANGED <<formula, parsedFormula, distribution, rollResult>>

CalculateProbabilityDistribution ==
    /\ pc = "stats"
    /\ \/ TotalDice(parsedFormula.terms) > DiceCap
       \/ JointOutcomes(parsedFormula.terms, MaxCombinations) <= MaxCombinations
    /\ distribution' = calculateProbabilityDistribution(parsedFormula.terms)
    /\ RowsInRange(distribution')
    /\ pc' = "dist"
    /\ UNCHANGED <<formula, parsedFormula, stats, rollResult>>

SimulateRoll ==
    /\ pc = "stats"
    /\ JointOutcomes(parsedFormula.terms, MaxOutcomes) <= MaxOutcomes
    /\ \E draws \in Draws(DieSides(parsedFormula.terms)) :
           /\ rollResult' = simulateRoll(parsedFormula.terms, draws)
           /\ rollResult'.total # OutOfRange
    /\ pc' = "rolled"
    /\ UNCHANGED <<formula, parsedFormula, stats, distribution>>

Next ==
    \/ Tokenize
    \/ CalculateStats
    \/ CalculateProbabilityDistribution
    \/ SimulateRoll

Spec == Init /\ [][Next]_vars

-----------------------------------------------------------------------------
(* What the properties speak of.                                           *)

\* The term sequence of an accepted formula.
Terms == parsedFormula.terms

IsOperand(t) == t.type = "dice" \/ t.type = "number"

IsOperator(t) == t.type = "operator"

IsOpen(t) == t.type = "parenthesis" /\ t.paren = "("

IsClose(t) == t.type = "parenthesis" /\ t.paren = ")"

\* The '(' minus the ')' among the first k terms.
RECURSIVE Depth(_, _)
Depth(ts, k) ==
    IF k = 0 THEN 0
    ELSE Depth(ts, k - 1)
         + (IF IsOpen(ts[k]) THEN 1 ELSE IF IsClose(ts[k]) THEN -1 ELSE 0)

Balanced(ts) ==
    /\ \A k \in 1..Len(ts) : Depth(ts, k) >= 0
    /\ Depth(ts, Len(ts)) = 0

\* Operands (dice terms, number terms or parenthesised groups) and binary
\* operators strictly alternate and the parentheses balance.
IsWellFormed(ts) ==
    /\ Len(ts) > 0
    /\ Balanced(ts)
    /\ IsOperand(ts[1]) \/ IsOpen(ts[1])
    /\ IsOperand(ts[Len(ts)]) \/ IsClose(ts[Len(ts)])
    /\ \A i \in 1..(Len(ts) - 1) :
           IF IsOperand(ts[i]) \/ IsClose(ts[i])
           THEN IsOperator(ts[i + 1]) \/ IsClose(ts[i + 1])
           ELSE IsOperand(ts[i + 1]) \/ IsOpen(ts[i + 1])

\* The value a mode gives an operand: the literal, or for NdS the least
\* sum N, the greatest sum N * S or the mean N * (S + 1) / 2.
OperandValue(t, mode) ==
    IF t.type = "number" THEN t.value
    ELSE CASE mode = "min" -> Num(t.count)
           [] mode = "max" -> Num(t.count * t.sides)
           [] mode = "avg" -> Rat(t.count * (t.sides + 1), 2)

(* The value of a well-formed term sequence under standard arithmetic, by  *)
(* recursive descent over the grammar                                      *)
(*    expr   ::= term   { ('+' | '-') term }                               *)
(*    term   ::= factor { ('*' | '/') factor }                             *)
(*    factor ::= operand | '(' expr ')'                                    *)
(* Each operator gives [v |-> the value, next |-> the index after it].     *)
RECURSIVE StdExpr(_, _, _)
RECURSIVE StdExprRest(_, _, _)
RECURSIVE StdTerm(_, _, _)
RECURSIVE StdTermRest(_, _, _)
RECURSIVE StdFactor(_, _, _)

StdFactor(ts, i, mode) ==
    IF IsOpen(ts[i])
    THEN [v |-> StdExpr(ts, i + 1, mode).v, next |-> StdExpr(ts, i + 1, mode).next + 1]
    ELSE [v |-> OperandValue(ts[i], mode), next |-> i + 1]

StdTermRest(ts, left, mode) ==
    IF left.next <= Len(ts) /\ IsOperator(ts[left.next]) /\ ts[left.next].op \in {"*", "/"}
    THEN StdTermRest(ts,
                     [v |-> Arith(ts[left.next].op, left.v,
                                  StdFactor(ts, left.next + 1, mode).v),
                      next |-> StdFactor(ts, left.next + 1, mode).next],
                     mode)
    ELSE left

StdTerm(ts, i, mode) == StdTermRest(ts, StdFactor(ts, i, mode), mode)

StdExprRest(ts, left, mode) ==
    IF left.next <= Len(ts) /\ IsOperator(ts[left.next]) /\ ts[left.next].op \in {"+", "-"}
    THEN StdExprRest(ts,
                     [v |-> Arith(ts[left.next].op, left.v,
                                  StdTerm(ts, left.next + 1, mode).v),
                      next |-> StdTerm(ts, left.next + 1, mode).next],
                     mode)
    ELSE left

StdExpr(ts, i, mode) == StdExprRest(ts, StdTerm(ts, i, mode), mode)

StdValue(ts, mode) == StdExpr(ts, 1, mode).v

-----------------------------------------------------------------------------
-----------------------------------------------------------------------------
\* Operands joined by '+' only.
OnlyAdds(ts) ==
    /\ Len(ts) % 2 = 1
    /\ \A i \in 1..Len(ts) :
           IF i % 2 = 1 THEN IsOperand(ts[i])
           ELSE IsOperator(ts[i]) /\ ts[i].op = "+"

\* The sum of the values a mode gives the operands of ts.
RECURSIVE SumOperands(_, _)
SumOperands(ts, mode) ==
    IF Len(ts) = 0 THEN Zero
    ELSE Add(IF IsOperand(ts[1]) THEN OperandValue(ts[1], mode) ELSE Zero,
             SumOperands(Tail(ts), mode))

\* C2: calculateStats resolves a dice term NdS to N in min mode, N * S in
\* max mode and N * (S + 1) / 2 in avg mode and a number term to its
\* literal in every mode, so a formula that only adds dice and constants
\* has the sums of these as min, max and avg; avg is kept unrounded and
\* avgFloored is the floor of avg.
C2_DiceResolution ==
    pc = "stats" =>
        /\ stats.avgFloored = Floor(stats.avg)
        /\ OnlyAdds(Terms) =>
               /\ stats.min = SumOperands(Terms, "min")
               /\ stats.max = SumOperands(Terms, "max")
               /\ stats.avg = SumOperands(Terms, "avg")

\* "5d2+9": min 5 + 9, max 10 + 9, avg 15/2 + 9 = 33/2 with floor 16.
C2_Witness ==
    /\ pc = "stats"
    /\ Terms = <<DiceTerm(5, 2), OperatorTerm("+"), NumberTerm(Num(9))>>
    /\ stats = [min |-> Num(14), max |-> Num(19), avg |-> Rat(33, 2),
                avgFloored |-> Num(16)]

\* C3: for every accepted formula, also one that subtracts a dice term,
\* divides by one or multiplies by a negative constant, every total that
\* simulateRoll can return lies between the min and the max of
\* calculateStats (stated for a min, a max and a total that are numbers).
C3_RollWithinMinMax ==
    (/\ pc = "rolled"
     /\ IsNumber(stats.min) /\ IsNumber(stats.max)
     /\ IsNumber(rollResult.total)) =>
        /\ LessEq(stats.min, rollResult.total)
        /\ LessEq(rollResult.total, stats.max)

\* C4: for a formula of a single dice term NdS, min = N, max = N * S,
\* avg = N * (S + 1) / 2 and every total of simulateRoll lies in [N, N * S].
C4_SingleDiceTerm ==
    (pc \in {"stats", "rolled"} /\ Len(Terms) = 1 /\ Terms[1].type = "dice") =>
        /\ stats.min = Num(Terms[1].count)
        /\ stats.max = Num(Terms[1].count * Terms[1].sides)
        /\ stats.avg = Rat(Terms[1].count * (Terms[1].sides + 1), 2)
        /\ pc = "rolled" =>
               /\ LessEq(Num(Terms[1].count), rollResult.total)
               /\ LessEq(rollResult.total, Num(Terms[1].count * Terms[1].sides))

\* "2d6" rolled as two sixes: the total is the max, 12.
C4_Witness ==
    /\ pc = "rolled"
    /\ Terms = <<DiceTerm(2, 6)>>
    /\ stats.min = Num(2) /\ stats.max = Num(12) /\ stats.avg = Num(7)
    /\ rollResult.total = Num(12)

-----------------------------------------------------------------------------
\* The sum of the counts of the dice terms of ts.
RECURSIVE DiceCount(_)
DiceCount(ts) ==
    IF Len(ts) = 0 THEN 0
    ELSE (IF ts[1].type = "dice" THEN ts[1].count ELSE 0) + DiceCount(Tail(ts))

RECURSIVE SumProbabilities(_)
SumProbabilities(rows) ==
    IF Len(rows) = 0 THEN Zero
    ELSE Add(rows[1].probability, SumProbabilities(Tail(rows)))

\* Every outcome of the dice of a well-formed ts divides by zero somewhere.
AllOutcomesUndefined(ts) ==
    \A draws \in Draws(DieSides(ts)) :
        IsNaN(StdValue(RolledTerms(ts, draws, 0), "min"))

-----------------------------------------------------------------------------
RECURSIVE Power(_, _)
Power(b, e) == IF e = 0 THEN 1 ELSE b * Power(b, e - 1)

\* The number of ordered N-tuples of faces in 1 .. S that sum to v.
Ways(N, S, v) == Cardinality({t \in [1..N -> 1..S] : SumSeq(t) = v})

\* The distribution of NdS as a sorted sequence of rows.
ConvolutionRows(N, S) ==
    [i \in 1..(N * S - N + 1) |->
        [value |-> Num(N + i - 1),
         probability |-> Rat(Ways(N, S, N + i - 1), Power(S, N))]]

\* What C6 says of the dice term NdS and its Map d.
IsConvolution(N, S, d) ==
    /\ DOMAIN d = {Num(v) : v \in N..(N * S)}
    /\ \A v \in N..(N * S) : d[Num(v)] = Ways(N, S, v)
    /\ BagCardinality(d) = Power(S, N)

\* C6: the distribution built for a single dice term NdS maps each v in
\* [N, N * S] to the number of ordered N-tuples of faces in [1, S] that sum
\* to v, has no other value and has total multiplicity S^N; the sequence
\* calculateProbabilityDistribution returns for it has these counts over S^N
\* as probabilities, and for 2d6 it is the support 2 .. 12 with probability
\* (6 - |v - 7|) / 36 for v.
C6_SingleDiceDistribution ==
    (/\ pc = "dist" /\ Len(Terms) = 1 /\ Terms[1].type = "dice"
     /\ Terms[1].count <= 8) =>
        /\ IsConvolution(Terms[1].count, Terms[1].sides,
                         getTermDistribution(Terms[1]))
        /\ distribution = ConvolutionRows(Terms[1].count, Terms[1].sides)
        /\ Terms[1] = DiceTerm(2, 6) =>
               distribution = [i \in 1..11 |->
                   [value |-> Num(i + 1),
                    probability |-> Rat(6 - Abs(i + 1 - 7), 36)]]

\* "2d6": eleven rows, the sixth is the value 7 with probability 6/36.
C6_Witness ==
    /\ pc = "dist"
    /\ Terms = <<DiceTerm(2, 6)>>
    /\ Len(distribution) = 11
    /\ distribution[6] = [value |-> Num(7), probability |-> Rat(1, 6)]

\* C7: calculateProbabilityDistribution returns the empty sequence whenever
\* the counts of the dice terms sum to more than 8, however the dice are
\* split over the terms, and calculateStats still returns the min, max and
\* avg of the expression for such a formula; with a sum of 8 or less the
\* formula is not refused for this reason: a formula that only adds dice
\* and constants gets a non-empty sequence from its min to its max.
C7_DiceCap ==
    pc = "dist" =>
        /\ DiceCount(Terms) > 8 =>
               /\ distribution = << >>
               /\ IsWellFormed(Terms) =>
                      /\ stats.min = StdValue(Terms, "min")
                      /\ stats.max = StdValue(Terms, "max")
                      /\ stats.avg = StdValue(Terms, "avg")
        /\ (DiceCount(Terms) <= 8 /\ OnlyAdds(Terms)) =>
               /\ Len(distribution) > 0
               /\ distribution[1].value = stats.min
               /\ distribution[Len(distribution)].value = stats.max

\* "4d2+5d2": nine dice over two terms; no distribution, stats 9, 18, 27/2.
C7_Witness ==
    /\ pc = "dist"
    /\ Terms = <<DiceTerm(4, 2), OperatorTerm("+"), DiceTerm(5, 2)>>
    /\ distribution = << >>
    /\ stats.min = Num(9) /\ stats.max = Num(18) /\ stats.avg = Rat(27, 2)

-----------------------------------------------------------------------------
\* The terms of ts that are not parentheses.
NonParenthesis(ts) == SelectSeq(ts, LAMBDA t : t.type # "parenthesis")

\* C8: tokenizeFormula rejects every formula in which two operands are
\* adjacent with no operator between them ("d6 d6", "2d6 3d6", "2(3)",
\* "(2)(3)"): no accepted term sequence has two operands in a row.
C8_NoAdjacentOperands ==
    pc = "parsed" =>
        \A i \in 1..(Len(Terms) - 1) :
            ~ (IsOperand(Terms[i]) /\ IsOperand(Terms[i + 1]))

\* C9: tokenizeFormula rejects every formula in which, after the folding of
\* unary signs, two binary operators are adjacent ("2d6++3", "2d6*/3",
\* "2d6+*3"): no accepted term sequence has two OperatorTerms in a row.
C9_NoAdjacentOperators ==
    pc = "parsed" =>
        \A i \in 1..(Len(Terms) - 1) :
            ~ (IsOperator(Terms[i]) /\ IsOperator(Terms[i + 1]))

\* C10: tokenizeFormula rejects every formula that starts or ends with a
\* binary operator ("*2d6", "2d6+", "-(1d6)"): the first and the last
\* non-parenthesis term of every accepted non-empty sequence is an operand.
C10_OperandAtBothEnds ==
    (pc = "parsed" /\ Len(NonParenthesis(Terms)) > 0) =>
        /\ IsOperand(NonParenthesis(Terms)[1])
        /\ IsOperand(NonParenthesis(Terms)[Len(NonParenthesis(Terms))])

-----------------------------------------------------------------------------
\* The cleaned formula and the number of its characters the lexed tokens
\* hold.
Cleaned == CleanFormula(formula)

RECURSIVE LexedLength(_)
LexedLength(tokens) ==
    IF Len(tokens) = 0 THEN 0 ELSE Len(tokens[1]) + LexedLength(Tail(tokens))

\* C11: tokenizeFormula rejects every formula whose cleaned string holds a
\* character sequence that is no dice pattern, literal, operator or
\* parenthesis ("2d6abc", "2d6&3", "1d6+x"): a formula is accepted only if
\* the lexed tokens cover the whole cleaned string.
C11_TokensCoverFormula ==
    pc = "parsed" => LexedLength(RegexMatch(Cleaned)) = Len(Cleaned)

\* The '(' minus the ')' among the first k characters of s.
RECURSIVE CharDepth(_, _)
CharDepth(s, k) ==
    IF k = 0 THEN 0
    ELSE CharDepth(s, k - 1)
         + (IF s[k] = "(" THEN 1 ELSE IF s[k] = ")" THEN -1 ELSE 0)

CharBalanced(s) ==
    /\ \A k \in 1..Len(s) : CharDepth(s, k) >= 0
    /\ CharDepth(s, Len(s)) = 0

\* C12: in every accepted term sequence the parentheses balance (from left
\* to right the '(' minus the ')' is never negative and is 0 at the end),
\* and every formula whose parentheses do not balance ("(1d6+4", "1d6)",
\* ")(") is rejected.
C12_ParenthesesBalance ==
    /\ pc = "parsed" => Balanced(Terms)
    /\ (pc \in {"parsed", "rejected"} /\ ~CharBalanced(formula)) => pc = "rejected"

\* ")(": as many '(' as ')', but the count falls below 0; rejected.
C12_Witness ==
    /\ pc = "rejected"
    /\ formula = <<")", "(">>
    /\ parsedFormula = Null

\* C13: a dice token without a count, "dS" with S >= 1, tokenizes to the
\* single DiceTerm of count 1 and sides S, never to a NumberTerm of value S.
C13_CountDefaultsToOne ==
    (/\ pc \in {"parsed", "rejected"}
     /\ Len(Cleaned) >= 2 /\ Cleaned[1] = "d"
     /\ IsDigits(Tail(Cleaned)) /\ ParseInt(Tail(Cleaned)) >= 1) =>
        /\ pc = "parsed"
        /\ Terms = <<DiceTerm(1, ParseInt(Tail(Cleaned)))>>

\* C14: a '+' or '-' at formula start, after '(' or after another operator
\* and followed by a number is a sign prefix: the formula is accepted, the
\* number term carries the sign and no OperatorTerm stands for the sign
\* (stated for a formula that is a sign and an integer literal: "-3" gives
\* [-3], "+3" gives [3]).
C14_SignPrefix ==
    (/\ pc \in {"parsed", "rejected"}
     /\ Len(formula) >= 2 /\ formula[1] \in {"+", "-"}
     /\ IsDigits(Tail(formula))) =>
        /\ pc = "parsed"
        /\ Terms = <<NumberTerm(IF formula[1] = "-"
                                THEN Neg(Num(ParseInt(Tail(formula))))
                                ELSE Num(ParseInt(Tail(formula))))>>

-----------------------------------------------------------------------------
\* Some '/' of ts is applied to the literal 0 as its right operand: the 0
\* stands right after the '/' and before an operator, a ')' or the end.
DividesByLiteralZero(ts) ==
    \E i \in 1..(Len(ts) - 1) :
        /\ IsOperator(ts[i]) /\ ts[i].op = "/"
        /\ ts[i + 1] = NumberTerm(Zero)
        /\ i + 1 < Len(ts) => (IsOperator(ts[i + 2]) \/ IsClose(ts[i + 2]))

\* C15: in min, max, avg and roll mode a division whose right operand is
\* zero does not raise; its undefined value propagates, so that min, max,
\* avg and avgFloored of calculateStats and the total of simulateRoll are
\* undefined, neither an error nor a zero default.
C15_DivisionByZeroIsUndefined ==
    (pc \in {"stats", "rolled"} /\ DividesByLiteralZero(Terms)) =>
        /\ IsNaN(stats.min) /\ IsNaN(stats.max)
        /\ IsNaN(stats.avg) /\ IsNaN(stats.avgFloored)
        /\ pc = "rolled" => IsNaN(rollResult.total)

\* C16: an empty or whitespace-only formula is accepted as the empty term
\* sequence; calculateStats gives min = max = avg = avgFloored = 0 for it,
\* calculateProbabilityDistribution the empty sequence and simulateRoll the
\* total 0 without details.
C16_EmptyFormula ==
    (pc # "input" /\ Len(Cleaned) = 0) =>
        /\ parsedFormula = Accepted(<< >>)
        /\ pc # "rejected"
        /\ pc \in {"stats", "dist", "rolled"} =>
               stats = [min |-> Zero, max |-> Zero, avg |-> Zero,
                        avgFloored |-> Zero]
        /\ pc = "dist" => distribution = << >>
        /\ pc = "rolled" =>
               /\ rollResult.total = Zero
               /\ rollResult.details = << >>

\* Two blanks: no terms, and an empty distribution after the zero stats.
C16_Witness ==
    /\ pc = "dist"
    /\ formula = <<" ", " ">>
    /\ Terms = << >>
    /\ stats.min = Zero /\ stats.max = Zero /\ stats.avg = Zero
    /\ distribution = << >>

-----------------------------------------------------------------------------
\* The sides of the dice of ts, die by die in term order.
RECURSIVE SidesInOrder(_)
SidesInOrder(ts) ==
    IF Len(ts) = 0 THEN << >>
    ELSE (IF ts[1].type = "dice" THEN [i \in 1..ts[1].count |-> ts[1].sides]
          ELSE << >>) \o SidesInOrder(Tail(ts))

\* ts with every dice term replaced by the number that is the sum of its
\* own values, the first count of values; the rest go to the later terms.
RECURSIVE WithDetailSums(_, _)
WithDetailSums(ts, values) ==
    IF Len(ts) = 0 THEN << >>
    ELSE IF ts[1].type = "dice"
    THEN <<NumberTerm(Num(SumSeq(SubSeq(values, 1, ts[1].count))))>>
         \o WithDetailSums(Tail(ts), SubSeq(values, ts[1].count + 1, Len(values)))
    ELSE <<ts[1]>> \o WithDetailSums(Tail(ts), values)

RECURSIVE SumNumbers(_)
SumNumbers(ts) ==
    IF Len(ts) = 0 THEN Zero
    ELSE Add(IF ts[1].type = "number" THEN ts[1].value ELSE Zero,
             SumNumbers(Tail(ts)))

\* Detail i has the sides of die i and a value from 1 to them.
DetailsFollow(details, sides) ==
    /\ Len(details) = Len(sides)
    /\ \A i \in 1..Len(details) :
           /\ details[i].sides = sides[i]
           /\ details[i].value \in 1..sides[i]

\* C17: for a well-formed term sequence the RollResult of simulateRoll has
\* one detail per rolled die, in term order, with a value from 1 to the
\* sides of its dice term; its total is the value of the formula with every
\* dice term replaced by the sum of its own details; its modifier is the
\* sum of the values of the number terms.
C17_RollResultConsistent ==
    (pc = "rolled" /\ IsWellFormed(Terms)) =>
        /\ Len(rollResult.details) = DiceCount(Terms)
        /\ DetailsFollow(rollResult.details, SidesInOrder(Terms))
        /\ rollResult.total =
               StdValue(WithDetailSums(Terms,
                            [i \in 1..Len(rollResult.details) |->
                                rollResult.details[i].value]), "min")
        /\ rollResult.modifier = SumNumbers(Terms)

\* "1d2*-1d2" rolled 1 and 2: terms 1d2 * -1 * 1d2, total 1 * -1 * 2 = -2,
\* modifier -1.
C17_Witness ==
    /\ pc = "rolled"
    /\ formula = <<"1", "d", "2", "*", "-", "1", "d", "2">>
    /\ IsWellFormed(Terms)
    /\ Len(rollResult.details) = 2
    /\ rollResult.details[1].value = 1 /\ rollResult.details[2].value = 2
    /\ rollResult.total = Num(-2)
    /\ rollResult.modifier = Num(-1)

-----------------------------------------------------------------------------
\* The sum of c1 * c2 over the pairs of values in S.
PairCount(d1, d2, S) == BagCardinality([p \in S |-> d1[p[1]] * d2[p[2]]])

AllPairs(d1, d2) == (DOMAIN d1) \X (DOMAIN d2)

\* The total multiplicity the claim gives the combination.
KeptTotal(d1, d2, op) ==
    IF op = "/"
    THEN PairCount(d1, d2, {p \in AllPairs(d1, d2) : p[2] # Zero})
    ELSE BagCardinality(d1) * BagCardinality(d2)

\* d is the convolution of d1 and d2 under op, a pair of values counted in
\* the bucket of key(v1 op v2); the pairs that divide by zero in none.
IsCombination(d, d1, d2, op, key(_)) ==
    /\ DOMAIN d = {key(Arith(op, p[1], p[2])) :
                      p \in {q \in AllPairs(d1, d2) : ~(op = "/" /\ q[2] = Zero)}}
    /\ \A v \in DOMAIN d :
           d[v] = PairCount(d1, d2, {p \in AllPairs(d1, d2) :
                                        /\ ~(op = "/" /\ p[2] = Zero)
                                        /\ key(Arith(op, p[1], p[2])) = v})
    /\ BagCardinality(d) = KeptTotal(d1, d2, op)

\* The term sequence is "a op b" or "a op ( b op c )".
IsPairShape == Len(Terms) = 3 /\ IsOperand(Terms[1]) /\ IsOperator(Terms[2])
                   /\ IsOperand(Terms[3])

IsNestedShape ==
    /\ Len(Terms) = 7
    /\ IsOperand(Terms[1]) /\ IsOperator(Terms[2]) /\ IsOpen(Terms[3])
    /\ IsOperand(Terms[4]) /\ IsOperator(Terms[5]) /\ IsOperand(Terms[6])
    /\ IsClose(Terms[7])

\* The right distribution of the last combination of such a sequence.
RightDistribution ==
    IF IsPairShape THEN getTermDistribution(Terms[3])
    ELSE combineDistributions(getTermDistribution(Terms[4]),
                              getTermDistribution(Terms[6]), Terms[5].op)

Exactly(v) == v

\* C18 as stated: combineDistributions(d1, d2, op) gives each value v the
\* sum of c1 * c2 over the pairs with v1 op v2 = v; the total is
\* total(d1) * total(d2) for '+', '-' and '*', and for '/' exactly the pairs
\* with v2 = 0 are dropped.
C18_ExactConvolution ==
    (pc = "dist" /\ DiceCount(Terms) <= 8 /\ (IsPairShape \/ IsNestedShape)) =>
        IsCombination(combineDistributions(getTermDistribution(Terms[1]),
                                           RightDistribution, Terms[2].op),
                      getTermDistribution(Terms[1]), RightDistribution,
                      Terms[2].op, Exactly)

\* C18, amended: combineDistributions(d1, d2, op) gives each value v the sum
\* of c1 * c2 over the pairs whose v1 op v2, rounded to 9 decimal digits,
\* is v; the total is total(d1) * total(d2) for '+', '-' and '*', and for
\* '/' exactly the pairs with v2 = 0 are dropped.  The probabilities
\* returned for such a formula are these multiplicities over their total.
C18_RoundedConvolution ==
    (pc = "dist" /\ DiceCount(Terms) <= 8 /\ (IsPairShape \/ IsNestedShape)) =>
        /\ IsCombination(combineDistributions(getTermDistribution(Terms[1]),
                                              RightDistribution, Terms[2].op),
                         getTermDistribution(Terms[1]), RightDistribution,
                         Terms[2].op, Round9)
        /\ \A i \in 1..Len(distribution) :
               distribution[i].probability =
                   Rat(PairCount(getTermDistribution(Terms[1]), RightDistribution,
                           {p \in AllPairs(getTermDistribution(Terms[1]),
                                           RightDistribution) :
                               /\ ~(Terms[2].op = "/" /\ p[2] = Zero)
                               /\ Round9(Arith(Terms[2].op, p[1], p[2]))
                                      = distribution[i].value}),
                       KeptTotal(getTermDistribution(Terms[1]), RightDistribution,
                                 Terms[2].op))

\* "3/2d6": the six outcomes with 2d6 = 7 fall in the bucket 0.428571429,
\* the rounded 3/7.
C18_Witness ==
    /\ pc = "dist"
    /\ Terms = <<NumberTerm(Num(3)), OperatorTerm("/"), DiceTerm(2, 6)>>
    /\ \E i \in 1..Len(distribution) :
           distribution[i] = [value |-> Rat(428571429, 1000000000),
                              probability |-> Rat(1, 6)]

-----------------------------------------------------------------------------
\* The terms of the roll that gave rollResult: every dice term replaced by
\* the sum of its details.
RolledAsDetailed(ts) ==
    WithDetailSums(ts, [i \in 1..Len(rollResult.details) |->
                           rollResult.details[i].value])

\* C19: evaluate never throws 'Mismatched parentheses' on a term sequence
\* that tokenizeFormula accepted, in no mode: every ')' finds its '(' on
\* the operator stack and no '(' is left for the drain, so the defaults of
\* the catch blocks are never what an accepted formula gets.
C19_EvaluateNeverThrows ==
    /\ pc = "stats" =>
           /\ ~evaluate(Terms, "min").threw
           /\ ~evaluate(Terms, "max").threw
           /\ ~evaluate(Terms, "avg").threw
    /\ pc = "rolled" => ~evaluate(RolledAsDetailed(Terms), "roll").threw
    /\ (pc = "dist" /\ DiceCount(Terms) <= 8) => ~evaluate(Terms, "dist").threw

\* "(2d6+3)*3": the ')' unwinds to its '('; stats 15, 45, 30 and a
\* distribution, no default.
C19_Witness ==
    /\ pc = "dist"
    /\ formula = <<"(", "2", "d", "6", "+", "3", ")", "*", "3">>
    /\ ~evaluate(Terms, "dist").threw
    /\ stats.min = Num(15) /\ stats.max = Num(45) /\ stats.avg = Num(30)
    /\ Len(distribution) = 11

-----------------------------------------------------------------------------
\* The formula reads "A op -NdS": an operand, a binary operator and a dice
\* term under a unary minus.
IsMinusDice(f) ==
    \E a \in SignedOperands, b \in SignedOperands, op \in Operators :
        /\ "d" \in {b[i] : i \in 1..Len(b)}
        /\ f = a \o <<op, "-">> \o b

\* A op (-v) for the values of the first and the last term in the mode.
MinusDiceValue(ts, op, mode) ==
    Arith(op, OperandValue(ts[1], mode), Neg(OperandValue(ts[Len(ts)], mode)))

\* C20: a unary minus negates exactly its dice term in every operator
\* context: "A op -NdS" has min, max and avg equal to A op (-v), where v is
\* the value of NdS in the mode; "A/-NdS" is A / (-v), not (A / -1) * v.
C20_MinusNegatesDiceTerm ==
    (pc = "stats" /\ IsMinusDice(formula)) =>
        /\ Len(Terms) = 5 /\ IsOperand(Terms[1]) /\ IsOperator(Terms[2])
        /\ Terms[5].type = "dice"
        /\ stats.min = MinusDiceValue(Terms, Terms[2].op, "min")
        /\ stats.max = MinusDiceValue(Terms, Terms[2].op, "max")
        /\ stats.avg = MinusDiceValue(Terms, Terms[2].op, "avg")

-----------------------------------------------------------------------------
\* The sum of value * probability over the rows.
RECURSIVE ExpectedValue(_)
ExpectedValue(rows) ==
    IF Len(rows) = 0 THEN Zero
    ELSE Add(Mul(rows[1].value, rows[1].probability), ExpectedValue(Tail(rows)))

\* No outcome of the dice of a well-formed ts divides by zero.
NoDivisionByZero(ts) ==
    \A draws \in Draws(DieSides(ts)) :
        ~IsNaN(StdValue(RolledTerms(ts, draws, 0), "min"))

\* a and b differ by less than a millionth: more than the rounding of the
\* values of the rows to 9 decimal digits can move their sum.
Near(a, b) ==
    LET d == Sub(a, b)
    IN  IsNumber(d) /\ Less(Rat(-1, 1000000), d) /\ Less(d, Rat(1, 1000000))

\* C21: the avg of calculateStats is the mathematical average of the
\* expression: for an accepted formula of at most 8 dice that never divides
\* by zero, avg equals the expected value of the rows of
\* calculateProbabilityDistribution, also when the formula multiplies two
\* dice terms or divides by one (stated for the well-formed term sequences
\* whose expected value the numbers of the model can compare with avg, and
\* with equality up to the rounding of the rows).
C21_AvgIsExpectedValue ==
    (/\ pc = "dist"
     /\ IsWellFormed(Terms) /\ DiceCount(Terms) <= 8
     /\ Sub(stats.avg, ExpectedValue(distribution)) # OutOfRange
     /\ NoDivisionByZero(Terms)) =>
        Near(stats.avg, ExpectedValue(distribution))

=============================================================================
